---------------------------- MODULE Spec2Model ----------------------------
(***************************************************************************)
(* Random module and module-universe generation                            *)
(* (language/tools/cost_synthesis/src/module_generator.rs).                *)
(*                                                                         *)
(* ModuleBuilder's methods are state transformers on the builder: each is  *)
(* an operator from the builder (a record of its fields) to the builder    *)
(* after the call.  The actions run them in the order of                   *)
(* materialize_unverified, one method per step, so that the in-progress    *)
(* module can be observed between two methods.                             *)
(*                                                                         *)
(* Table indices are the source's 0-based indices; TLA+ sequences are      *)
(* 1-based, so entry i of a table t is t[i + 1] (see At).                  *)
(***************************************************************************)
EXTENDS Integers, Sequences, FiniteSets, TLC

(***************************************************************************)
(* Bounds of the model.                                                    *)
(***************************************************************************)
\* largest table_size a builder is created with
MaxTableSize == 2
\* largest module count of a ModuleGenerator, and largest number of direct
\* materialize calls on a ModuleBuilder
MaxIters == 3
\* pulls made on a ModuleGenerator after it is exhausted
MaxExtraPulls == 2
\* the seeded streams StdRng is sampled over are 0..MaxSeed
MaxSeed == 3
\* the states the operating system's generator starts in are 0..MaxEntropy
MaxEntropy == 1

(***************************************************************************)
(* Constants of crate::common (imported at line 10) and literals.          *)
(***************************************************************************)
MAX_STRING_SIZE == 3
BYTE_ARRAY_MAX_SIZE == 3
MAX_FIELDS == 3
MAX_NUM_LOCALS == 3
MAX_FUNCTION_CALL_SIZE == 3
MAX_RETURN_TYPES_LENGTH == 3
\* (0..10) at line 339: the length of a module's own name
SELF_NAME_LENGTH == 10
\* max_stack_size at line 159
MAX_STACK_SIZE == 20

\* TableIndex is u16: `x as u16` and TableIndex::new keep the low 16 bits
TableIndex(x) == x % 65536

At(table, i) == table[i + 1]

min(a, b) == IF a < b THEN a ELSE b

(***************************************************************************)
(* The seeded generator (self.gen, a StdRng).  Its algorithm is outside    *)
(* the repository; what the builder relies on is that the stream is a      *)
(* function of the seed alone.  It is a full-period congruential           *)
(* generator on 8 bits here, whose 4 high bits are the output.  Every      *)
(* draw returns [v |-> the value, g |-> the generator afterwards].         *)
(***************************************************************************)
from_seed(seed) == seed

next_state(g) == (13 * g + 7) % 256

next_u32(g) == [v |-> next_state(g) \div 16, g |-> next_state(g)]

\* gen_range(low, high): uniform in [low, high); the caller checks low < high
\* (rand panics otherwise)
gen_range(g, low, high) ==
    LET r == next_u32(g) IN [v |-> low + (r.v % (high - low)), g |-> r.g]

Alphabet == <<"a", "b", "c", "d">>

\* gen::<char>()
gen_char(g) ==
    LET r == next_u32(g) IN [v |-> Alphabet[(r.v % Len(Alphabet)) + 1], g |-> r.g]

\* gen::<u8>()
gen_u8(g) == next_u32(g)

\* gen_bool(1.0 / 2.0)
gen_bool(g) == LET r == next_u32(g) IN [v |-> r.v % 2 = 1, g |-> r.g]

\* (0..len).map(|_| self.gen.gen::<char>()).collect::<String>()
RECURSIVE gen_string(_, _)
gen_string(g, len) ==
    IF len = 0 THEN [v |-> "", g |-> g]
    ELSE LET c == gen_char(g)
             rest == gen_string(c.g, len - 1)
         IN [v |-> c.v \o rest.v, g |-> rest.g]

\* (0..len).map(|_| self.gen.gen::<u8>()).collect()
RECURSIVE gen_bytes(_, _)
gen_bytes(g, len) ==
    IF len = 0 THEN [v |-> <<>>, g |-> g]
    ELSE LET c == gen_u8(g)
             rest == gen_bytes(c.g, len - 1)
         IN [v |-> <<c.v>> \o rest.v, g |-> rest.g]

(***************************************************************************)
(* AccountAddress::random() takes no generator: it draws from the          *)
(* operating system, not from self.gen.  An address is wide enough that    *)
(* two draws never coincide; the stream is a full-period generator on 6    *)
(* bits whose state is the address, so that no address repeats within a    *)
(* run.  os_random(e, n) is n draws: [v |-> the addresses, e |-> the       *)
(* generator afterwards].                                                  *)
(***************************************************************************)
AccountAddress_random(e) == [v |-> (5 * e + 3) % 64, e |-> (5 * e + 3) % 64]

RECURSIVE os_random(_, _)
os_random(e, n) ==
    IF n = 0 THEN [v |-> <<>>, e |-> e]
    ELSE LET a == AccountAddress_random(e)
             rest == os_random(a.e, n - 1)
         IN [v |-> <<a.v>> \o rest.v, e |-> rest.e]


(***************************************************************************)
(* The module under construction (CompiledModuleMut): one sequence per     *)
(* pool or table.                                                          *)
(***************************************************************************)
sig_toks == <<"Bool", "U64", "String", "ByteArray", "Address">>

CompiledModuleMut_default ==
    [address_pool        |-> <<>>,
     identifiers         |-> <<>>,
     user_strings        |-> <<>>,
     byte_array_pool     |-> <<>>,
     type_signatures     |-> <<>>,
     module_handles      |-> <<>>,
     struct_handles      |-> <<>>,
     struct_defs         |-> <<>>,
     field_defs          |-> <<>>,
     function_handles    |-> <<>>,
     function_signatures |-> <<>>,
     locals_signatures   |-> <<>>,
     function_defs       |-> <<>>]

Tables == DOMAIN CompiledModuleMut_default

default_module_with_types ==
    [CompiledModuleMut_default EXCEPT !.type_signatures = sig_toks]

ModuleId(address, name) == [address |-> address, name |-> name]

\* the iteration orders HashMap::keys() may produce for a key set
KeyOrders(keys) ==
    {s \in [1..Cardinality(keys) -> keys] :
        \A i, j \in 1..Cardinality(keys) : s[i] = s[j] => i = j}

(***************************************************************************)
(* ModuleBuilder.  `self` is the record of the builder's fields (gen,      *)
(* module, table_size, known_modules, bytecode_gen), with the local        *)
(* `functions` of with_random_functions and `panic`, the message of the    *)
(* unwrap or expect that failed ("none" while none has).  `forward` is a   *)
(* history of the current materialize call: the pairs <<table, target>>    *)
(* such that an entry was written to `table` holding an index into         *)
(* `target` that was not yet an index of `target` at that moment.          *)
(***************************************************************************)
ModuleBuilder_new(seed, table_size, bytecode_gen) ==
    [gen           |-> from_seed(seed),
     module        |-> default_module_with_types,
     table_size    |-> table_size,
     known_modules |-> <<>>,
     bytecode_gen  |-> bytecode_gen,
     functions     |-> <<>>,
     panic         |-> "none",
     forward       |-> {}]

\* the indices an entry of `table` holds, each with the table it designates
\* (the first field definition of a struct definition; the instructions of
\* a function body are the hook's, not the builder's)
Indices(table, entry) ==
    CASE table = "module_handles" ->
             {<<entry.address, "address_pool">>, <<entry.name, "identifiers">>}
      [] table = "struct_handles" ->
             {<<entry.module, "module_handles">>, <<entry.name, "identifiers">>}
      [] table = "struct_defs" ->
             {<<entry.struct_handle, "struct_handles">>, <<entry.fields, "field_defs">>}
      [] table = "field_defs" ->
             {<<entry.struct_, "struct_handles">>, <<entry.name, "identifiers">>,
              <<entry.signature, "type_signatures">>}
      [] table = "function_handles" ->
             {<<entry.module, "module_handles">>, <<entry.name, "identifiers">>,
              <<entry.signature, "function_signatures">>}
      [] table = "function_defs" ->
             {<<entry.function, "function_handles">>,
              <<entry.code.locals, "locals_signatures">>}

\* `forward` after `entries` are written to `table` of the module m: m is
\* the module as it stands when the entries are made
written(forward, m, table, entries) ==
    forward \cup
    {<<table, r[2]>> :
        r \in {r \in UNION {Indices(table, entries[i]) : i \in 1..Len(entries)} :
                  ~(r[1] < Len(m[r[2]]))}}

\* (mutant) the offsets taken as if the module's own entries were not yet in
\* the pools: the first callee handle lands on the module's own name and
\* address
callee_module_handles_from_self(n, address_pool_offset, identifier_offset) ==
    [i \in 1..n |-> [address |-> TableIndex(address_pool_offset - 1 + (i - 1)),
                     name    |-> TableIndex(identifier_offset - 1 + (i - 1))]]

\* (mutant) the names taken in the reverse order of the addresses
callee_module_handles_crossed(n, address_pool_offset, identifier_offset) ==
    [i \in 1..n |-> [address |-> TableIndex(address_pool_offset + (i - 1)),
                     name    |-> TableIndex(identifier_offset + (n - i))]]

\* one module handle per known module, at consecutive pool positions from the
\* offsets on (u16 sums)
callee_module_handles(n, address_pool_offset, identifier_offset) ==
    [i \in 1..n |-> [address |-> TableIndex(address_pool_offset + (i - 1)),
                     name    |-> TableIndex(identifier_offset + (i - 1))]]

\* `address` is the value of AccountAddress::random(), `keys` the order in
\* which known_modules.keys() iterates
with_callee_modules(self, address, keys) ==
    LET module_name == gen_string(self.gen, SELF_NAME_LENGTH)
        m0 == self.module
        identifiers0 == <<module_name.v>> \o m0.identifiers
        address_pool0 == <<address>> \o m0.address_pool
        self_module_handle == [address |-> 0, name |-> 0]
        module_handles0 == <<self_module_handle>> \o m0.module_handles
        names == [i \in 1..Len(keys) |-> keys[i].name]
        addresses == [i \in 1..Len(keys) |-> keys[i].address]
        address_pool_offset == TableIndex(Len(address_pool0))
        identifier_offset == TableIndex(Len(identifiers0))
        module_handles ==
            callee_module_handles(Cardinality(DOMAIN self.known_modules),
                                  address_pool_offset, identifier_offset)
        own == [m0 EXCEPT !.identifiers = identifiers0,
                          !.address_pool = address_pool0]
        pooled == [m0 EXCEPT !.identifiers = identifiers0 \o names,
                             !.address_pool = address_pool0 \o addresses]
    IN [self EXCEPT !.gen = module_name.g,
                    !.forward = written(written(@, own, "module_handles",
                                                <<self_module_handle>>),
                                        pooled, "module_handles", module_handles),
                    !.module.identifiers = identifiers0 \o names,
                    !.module.address_pool = address_pool0 \o addresses,
                    !.module.module_handles = module_handles0 \o module_handles]

\* (mutant) the addresses put in front of the pool, as with_callee_modules
\* does for the module's own address
with_account_addresses_in_front(self, addrs) ==
    [self EXCEPT !.module.address_pool = addrs \o @]

\* `addrs` are the table_size values of AccountAddress::random()
with_account_addresses(self, addrs) ==
    [self EXCEPT !.module.address_pool = @ \o addrs]

\* n strings of gen_range(1, MAX_STRING_SIZE) characters each
RECURSIVE gen_strings(_, _)
gen_strings(g, n) ==
    IF n = 0 THEN [v |-> <<>>, g |-> g]
    ELSE LET len == gen_range(g, 1, MAX_STRING_SIZE)
             s == gen_string(len.g, len.v)
             rest == gen_strings(s.g, n - 1)
         IN [v |-> <<s.v>> \o rest.v, g |-> rest.g]

with_identifiers(self) ==
    LET identifiers == gen_strings(self.gen, self.table_size)
    IN [self EXCEPT !.gen = identifiers.g,
                    !.module.identifiers = @ \o identifiers.v]

\* (mutant) the user strings appended to the identifier pool
with_user_strings_as_identifiers(self) ==
    LET strs == gen_strings(self.gen, self.table_size)
    IN [self EXCEPT !.gen = strs.g,
                    !.module.identifiers = @ \o strs.v]

with_user_strings(self) ==
    LET strs == gen_strings(self.gen, self.table_size)
    IN [self EXCEPT !.gen = strs.g,
                    !.module.user_strings = @ \o strs.v]

RECURSIVE gen_bytearrays(_, _)
gen_bytearrays(g, n) ==
    IF n = 0 THEN [v |-> <<>>, g |-> g]
    ELSE LET len == gen_range(g, 1, BYTE_ARRAY_MAX_SIZE)
             bytes == gen_bytes(len.g, len.v)
             rest == gen_bytearrays(bytes.g, n - 1)
         IN [v |-> <<bytes.v>> \o rest.v, g |-> rest.g]

\* the pool is assigned, not appended to
with_bytearrays(self) ==
    LET arrays == gen_bytearrays(self.gen, self.table_size)
    IN [self EXCEPT !.gen = arrays.g,
                    !.module.byte_array_pool = arrays.v]

\* (mutant) the fields of one struct over the inclusive range 0..=num_fields
RECURSIVE struct_fields_inclusive(_, _, _, _)
struct_fields_inclusive(self, struct_idx, i, num_fields) ==
    IF i = num_fields + 1 THEN self
    ELSE LET typ_idx == gen_range(self.gen, 0,
                                  TableIndex(Len(self.module.type_signatures)))
             field_def == [struct_   |-> struct_idx,
                           name      |-> TableIndex(i),
                           signature |-> typ_idx.v]
         IN struct_fields_inclusive(
                [self EXCEPT !.gen = typ_idx.g,
                             !.module.field_defs = Append(@, field_def),
                             !.forward = written(@, self.module, "field_defs",
                                                 <<field_def>>)],
                struct_idx, i + 1, num_fields)

\* (mutant) the fields of one struct, named from identifier 1 on
RECURSIVE struct_fields_named_from_one(_, _, _, _)
struct_fields_named_from_one(self, struct_idx, i, num_fields) ==
    IF i = num_fields THEN self
    ELSE LET typ_idx == gen_range(self.gen, 0,
                                  TableIndex(Len(self.module.type_signatures)))
             field_def == [struct_   |-> struct_idx,
                           name      |-> TableIndex(i + 1),
                           signature |-> typ_idx.v]
         IN struct_fields_named_from_one(
                [self EXCEPT !.gen = typ_idx.g,
                             !.module.field_defs = Append(@, field_def),
                             !.forward = written(@, self.module, "field_defs",
                                                 <<field_def>>)],
                struct_idx, i + 1, num_fields)

\* the fields of one struct: field i draws its type and takes identifier i
RECURSIVE struct_fields(_, _, _, _)
struct_fields(self, struct_idx, i, num_fields) ==
    IF i = num_fields THEN self
    ELSE LET typ_idx == gen_range(self.gen, 0,
                                  TableIndex(Len(self.module.type_signatures)))
             field_def == [struct_   |-> struct_idx,
                           name      |-> TableIndex(i),
                           signature |-> typ_idx.v]
         IN struct_fields([self EXCEPT !.gen = typ_idx.g,
                                       !.module.field_defs = Append(@, field_def),
                                       !.forward = written(@, self.module, "field_defs",
                                                           <<field_def>>)],
                          struct_idx, i + 1, num_fields)

\* (mutant) the field count drawn from the closed range [1, high]
num_fields_high_inclusive(self) ==
    min(Len(self.module.identifiers), MAX_FIELDS) + 1

\* the exclusive upper bound of a struct's field count
num_fields_high(self) == min(Len(self.module.identifiers), MAX_FIELDS)

\* for struct_idx in 0..self.table_size: the struct definition, then its fields
RECURSIVE struct_loop(_, _)
struct_loop(self, struct_idx) ==
    IF struct_idx = self.table_size \/ self.panic # "none" THEN self
    ELSE LET high == num_fields_high(self)
             num_fields == gen_range(self.gen, 1, high)
             struct_def == [struct_handle |-> struct_idx,
                            field_count   |-> TableIndex(num_fields.v),
                            fields        |-> TableIndex(Len(self.module.field_defs))]
         IN IF high <= 1
            THEN [self EXCEPT !.panic = "gen_range: low >= high"]
            ELSE struct_loop(
                     struct_fields([self EXCEPT !.gen = num_fields.g,
                                                !.module.struct_defs = Append(@, struct_def),
                                                !.forward = written(@, self.module, "struct_defs",
                                                                    <<struct_def>>)],
                                   struct_idx, 0, num_fields.v),
                     struct_idx + 1)

\* (mutant) the struct handles, one fewer than the struct definitions
RECURSIVE gen_struct_handles_one_short(_, _, _, _)
gen_struct_handles_one_short(g, n, offset, handles) ==
    IF Len(handles) >= n - 1 THEN [v |-> handles, g |-> g]
    ELSE LET struct_idx == Len(handles)
             is_nominal_resource == gen_bool(g)
             handle == [module              |-> 0,
                        name                |-> TableIndex(struct_idx + offset),
                        is_nominal_resource |-> is_nominal_resource.v,
                        type_formals        |-> <<>>]
         IN gen_struct_handles_one_short(is_nominal_resource.g, n, offset,
                                         Append(handles, handle))

\* the struct handles, one fair coin each; `handles` are those made so far
RECURSIVE gen_struct_handles(_, _, _, _)
gen_struct_handles(g, n, offset, handles) ==
    IF Len(handles) = n THEN [v |-> handles, g |-> g]
    ELSE LET struct_idx == Len(handles)
             is_nominal_resource == gen_bool(g)
             handle == [module              |-> 0,
                        name                |-> TableIndex(struct_idx + offset),
                        is_nominal_resource |-> is_nominal_resource.v,
                        type_formals        |-> <<>>]
         IN gen_struct_handles(is_nominal_resource.g, n, offset, Append(handles, handle))

with_structs(self) ==
    LET names == [i \in 1..self.table_size |-> "struct" \o ToString(i - 1)]
        offset == TableIndex(Len(self.module.identifiers))
        looped == struct_loop([self EXCEPT !.module.identifiers = @ \o names], 0)
        struct_handles == gen_struct_handles(looped.gen, self.table_size, offset, <<>>)
    IN IF looped.panic # "none" THEN looped
       ELSE [looped EXCEPT !.gen = struct_handles.g,
                           !.module.struct_handles = struct_handles.v,
                           !.forward = written(@, looped.module, "struct_handles",
                                               struct_handles.v)]

\* n signature tokens, each sig_toks[gen_range(0, sig_toks.len())]
RECURSIVE gen_tokens(_, _)
gen_tokens(g, n) ==
    IF n = 0 THEN [v |-> <<>>, g |-> g]
    ELSE LET index == gen_range(g, 0, Len(sig_toks))
             rest == gen_tokens(index.g, n - 1)
         IN [v |-> <<At(sig_toks, index.v)>> \o rest.v, g |-> rest.g]

\* n pairs (locals, function_sig)
RECURSIVE gen_functions(_, _)
gen_functions(g, n) ==
    IF n = 0 THEN [v |-> <<>>, g |-> g]
    ELSE LET num_locals == gen_range(g, 1, MAX_NUM_LOCALS)
             num_args == gen_range(num_locals.g, 1, MAX_FUNCTION_CALL_SIZE)
             num_return_types == gen_range(num_args.g, 1, MAX_RETURN_TYPES_LENGTH)
             locals == gen_tokens(num_return_types.g, num_locals.v)
             args == gen_tokens(locals.g, num_args.v)
             return_types == gen_tokens(args.g, num_return_types.v)
             function_sig == [arg_types    |-> args.v,
                              return_types |-> return_types.v,
                              type_formals |-> <<>>]
             rest == gen_functions(return_types.g, n - 1)
         IN [v |-> <<[locals |-> locals.v, sig |-> function_sig]>> \o rest.v,
             g |-> rest.g]

\* (mutant) the signatures drawn over the inclusive range 0..=table_size
random_functions_inclusive(self) ==
    LET functions == gen_functions(self.gen, self.table_size + 1)
    IN [self EXCEPT !.gen = functions.g, !.functions = functions.v]

\* with_random_functions up to the calls of with_cross_calls and
\* with_functions: the random signatures, kept in `functions`
random_functions(self) ==
    LET functions == gen_functions(self.gen, self.table_size)
    IN [self EXCEPT !.gen = functions.g, !.functions = functions.v]

\* (mutant) twice as many cross calls as local functions
number_of_cross_calls_doubled(self) == 2 * self.table_size

number_of_cross_calls(self) == self.table_size

\* (mutant) the weaver copying the callee's indices into the new handle, in
\* place of the positions of the entries it appends
RECURSIVE cross_call_loop_by_index(_, _, _)
cross_call_loop_by_index(self, module_table_size, left) ==
    IF left = 0 \/ self.panic # "none" THEN self
    ELSE LET m == self.module
             non_self_module_handle_idx == gen_range(self.gen, 1, module_table_size)
             callee_module_handle == At(m.module_handles, non_self_module_handle_idx.v)
             module_id == ModuleId(At(m.address_pool, callee_module_handle.address),
                                   At(m.identifiers, callee_module_handle.name))
             callee_module == self.known_modules[module_id]
             callee_function_handle_idx ==
                 gen_range(non_self_module_handle_idx.g, 0,
                           Len(callee_module.function_handles))
             callee_function_handle ==
                 At(callee_module.function_handles,
                    TableIndex(callee_function_handle_idx.v))
             func_handle == [module    |-> TableIndex(non_self_module_handle_idx.v),
                             name      |-> callee_function_handle.name,
                             signature |-> callee_function_handle.signature]
         IN IF module_id \notin DOMAIN self.known_modules
                \/ Len(callee_module.function_handles) = 0
            THEN [self EXCEPT !.panic = "gen_range: low >= high"]
            ELSE cross_call_loop_by_index(
                     [self EXCEPT
                         !.gen = callee_function_handle_idx.g,
                         !.module.identifiers =
                             Append(@, At(callee_module.identifiers,
                                          callee_function_handle.name)),
                         !.module.function_signatures =
                             Append(@, At(callee_module.function_signatures,
                                          callee_function_handle.signature)),
                         !.module.function_handles = Append(@, func_handle)],
                     module_table_size, left - 1)

\* one iteration per cross call; `left` iterations remain
RECURSIVE cross_call_loop(_, _, _)
cross_call_loop(self, module_table_size, left) ==
    IF left = 0 \/ self.panic # "none" THEN self
    ELSE LET m == self.module
             non_self_module_handle_idx == gen_range(self.gen, 1, module_table_size)
             callee_module_handle == At(m.module_handles, non_self_module_handle_idx.v)
             address == At(m.address_pool, callee_module_handle.address)
             name == At(m.identifiers, callee_module_handle.name)
             module_id == ModuleId(address, name)
             callee_module == self.known_modules[module_id]
             callee_function_handle_idx ==
                 gen_range(non_self_module_handle_idx.g, 0,
                           Len(callee_module.function_handles))
             callee_function_handle ==
                 At(callee_module.function_handles,
                    TableIndex(callee_function_handle_idx.v))
             callee_type_sig ==
                 At(callee_module.function_signatures, callee_function_handle.signature)
             callee_name == At(callee_module.identifiers, callee_function_handle.name)
             callee_name_idx == TableIndex(Len(m.identifiers))
             callee_type_sig_idx == TableIndex(Len(m.function_signatures))
             func_handle == [module    |-> TableIndex(non_self_module_handle_idx.v),
                             name      |-> callee_name_idx,
                             signature |-> callee_type_sig_idx]
         IN IF module_id \notin DOMAIN self.known_modules
            THEN [self EXCEPT !.gen = non_self_module_handle_idx.g,
                              !.panic = "[Module Lookup] Unable to get module from known_modules."]
            ELSE IF Len(callee_module.function_handles) = 0
            THEN [self EXCEPT !.gen = non_self_module_handle_idx.g,
                              !.panic = "gen_range: low >= high"]
            ELSE cross_call_loop(
                     [self EXCEPT !.gen = callee_function_handle_idx.g,
                                  !.module.identifiers = Append(@, callee_name),
                                  !.module.function_signatures = Append(@, callee_type_sig),
                                  !.module.function_handles = Append(@, func_handle),
                                  !.forward =
                                      written(@, [m EXCEPT
                                                     !.identifiers = Append(@, callee_name),
                                                     !.function_signatures =
                                                         Append(@, callee_type_sig)],
                                              "function_handles", <<func_handle>>)],
                     module_table_size, left - 1)

with_cross_calls(self) ==
    LET module_table_size == Len(self.module.module_handles)
    IN IF module_table_size < 2 THEN self
       ELSE cross_call_loop(self, module_table_size, number_of_cross_calls(self))

(***************************************************************************)
(* Function bodies.  An instruction is [op, arg]; arg is the index a Call  *)
(* carries (a function handle) and 0 for an instruction that carries none. *)
(* A body-synthesis hook is a pure function of the locals, the signature   *)
(* and a copy of the module.  The hooks sampled here emit one Call: of the  *)
(* first function handle of the module ("CallFirstHandle"), or of the      *)
(* function handle that has the index of the module's last module handle   *)
(* ("CallHandleOfLastModule"), which the function-handle table may lack.   *)
(***************************************************************************)
Instr(op) == [op |-> op, arg |-> 0]

Call(idx) == [op |-> "Call", arg |-> idx]

BytecodeGenerators == {"None", "CallFirstHandle", "CallHandleOfLastModule"}

bytecode_gen_call(bytecode_gen, locals, sig, module) ==
    IF bytecode_gen = "CallFirstHandle"
    THEN <<Call(0), Instr("Ret")>>
    ELSE <<Call(Len(module.module_handles) - 1), Instr("Ret")>>

code_of(self, sig) ==
    IF self.bytecode_gen # "None"
    THEN bytecode_gen_call(self.bytecode_gen, sig.locals, sig.sig, self.module)
    ELSE <<Instr("Sub"), Instr("Sub"), Instr("Add"), Instr("Ret")>>

\* (mutant) the signature offset read after the signatures were appended
local_function_handles_late_offset(sigs, offset, function_sig_offset) ==
    [i \in 1..Len(sigs) |->
        [name      |-> TableIndex((i - 1) + offset),
         signature |-> TableIndex((i - 1) + function_sig_offset + Len(sigs)),
         module    |-> 0]]

\* the function handles of with_functions: one per signature, all of module 0
local_function_handles(sigs, offset, function_sig_offset) ==
    [i \in 1..Len(sigs) |->
        [name      |-> TableIndex((i - 1) + offset),
         signature |-> TableIndex((i - 1) + function_sig_offset),
         module    |-> 0]]

\* function_handles and function_defs are assigned, the other tables
\* appended to
with_functions(self, sigs) ==
    LET names == [i \in 1..Len(sigs) |-> "func" \o ToString(i - 1)]
        offset == Len(self.module.identifiers)
        function_sig_offset == Len(self.module.function_signatures)
        function_sigs == [i \in 1..Len(sigs) |-> sigs[i].sig]
        local_sigs == [i \in 1..Len(sigs) |-> sigs[i].locals]
        function_handles == local_function_handles(sigs, offset, function_sig_offset)
        named == [self.module EXCEPT !.identifiers = @ \o names]
        handled ==
            [self EXCEPT !.module.identifiers = @ \o names,
                         !.module.function_handles = function_handles,
                         !.module.function_signatures = @ \o function_sigs,
                         !.module.locals_signatures = @ \o local_sigs,
                         !.forward = written(@, named, "function_handles",
                                             function_handles)]
        function_defs ==
            [i \in 1..Len(sigs) |->
                [function                  |-> TableIndex(i - 1),
                 flags                     |-> "PUBLIC",
                 acquires_global_resources |-> <<>>,
                 code |-> [max_stack_size |-> MAX_STACK_SIZE,
                           locals         |-> TableIndex(i - 1),
                           code           |-> code_of(handled, sigs[i])]]]
    IN [handled EXCEPT !.module.function_defs = function_defs,
                       !.forward = written(@, handled.module, "function_defs",
                                           function_defs)]

(***************************************************************************)
(* CompiledModuleMut::freeze and CompiledModule::self_id (the vm crate).   *)
(* freeze runs the bounds checker: every index a table entry or an         *)
(* instruction holds must lie within the table it designates.              *)
(***************************************************************************)
InTable(idx, table) == 0 <= idx /\ idx < Len(table)

Entries(table) == {table[i] : i \in 1..Len(table)}

bounds_check(m) ==
    /\ \A h \in Entries(m.module_handles) :
           InTable(h.address, m.address_pool) /\ InTable(h.name, m.identifiers)
    /\ \A h \in Entries(m.struct_handles) :
           InTable(h.module, m.module_handles) /\ InTable(h.name, m.identifiers)
    /\ \A d \in Entries(m.struct_defs) :
           /\ InTable(d.struct_handle, m.struct_handles)
           /\ d.fields + d.field_count <= Len(m.field_defs)
    /\ \A f \in Entries(m.field_defs) :
           /\ InTable(f.struct_, m.struct_handles)
           /\ InTable(f.name, m.identifiers)
           /\ InTable(f.signature, m.type_signatures)
    /\ \A h \in Entries(m.function_handles) :
           /\ InTable(h.module, m.module_handles)
           /\ InTable(h.name, m.identifiers)
           /\ InTable(h.signature, m.function_signatures)
    /\ \A d \in Entries(m.function_defs) :
           /\ InTable(d.function, m.function_handles)
           /\ InTable(d.code.locals, m.locals_signatures)
           /\ \A c \in Entries(d.code.code) :
                  c.op = "Call" => InTable(c.arg, m.function_handles)

freeze(module) == [ok |-> bounds_check(module), module |-> module]

self_id(module) ==
    LET self_handle == At(module.module_handles, 0)
    IN ModuleId(At(module.address_pool, self_handle.address),
                At(module.identifiers, self_handle.name))

\* (mutant) the registry holding the last module only
insert_forgetting(known_modules, module) == self_id(module) :> module

\* the registry after known_modules.insert(module.self_id(), module.clone())
insert(known_modules, module) == (self_id(module) :> module) @@ known_modules

\* (mutant) the module registered before the result of freeze is looked at
swap_insert_freeze(self) ==
    LET module == freeze(self.module)
        swapped == [self EXCEPT !.module = default_module_with_types,
                                !.functions = <<>>,
                                !.forward = {},
                                !.known_modules = insert(@, module.module)]
    IN IF ~module.ok
       THEN [swapped EXCEPT !.panic = "should satisfy bounds checker"]
       ELSE swapped

\* (mutant) the built module frozen and registered without a fresh one
\* swapped in
freeze_insert_without_swap(self) ==
    LET module == freeze(self.module)
    IN IF ~module.ok
       THEN [self EXCEPT !.panic = "should satisfy bounds checker"]
       ELSE [self EXCEPT !.functions = <<>>,
                         !.forward = {},
                         !.known_modules = insert(@, module.module)]

\* materialize_unverified from line 385 on: swap in a fresh module, freeze
\* the built one, register it.  The built module is self.module.
swap_freeze_insert(self) ==
    LET module == freeze(self.module)
        swapped == [self EXCEPT !.module = default_module_with_types,
                                !.functions = <<>>,
                                !.forward = {}]
    IN IF ~module.ok
       THEN [swapped EXCEPT !.panic = "should satisfy bounds checker"]
       ELSE [swapped EXCEPT !.known_modules = insert(@, module.module)]

\* the methods of materialize_unverified before the swap, in order; a panic
\* ends the call, so that no later method runs.  Each line is the builder
\* after one more method, as a one-element set.
build(self, address, addrs, keys) ==
    LET panicked(s) == s.panic # "none"
        s1 == {with_callee_modules(self, address, keys)}
        s2 == {IF panicked(s) THEN s ELSE with_account_addresses(s, addrs) : s \in s1}
        s3 == {IF panicked(s) THEN s ELSE with_identifiers(s) : s \in s2}
        s4 == {IF panicked(s) THEN s ELSE with_user_strings(s) : s \in s3}
        s5 == {IF panicked(s) THEN s ELSE with_bytearrays(s) : s \in s4}
        s6 == {IF panicked(s) THEN s ELSE with_structs(s) : s \in s5}
        s7 == {IF panicked(s) THEN s ELSE random_functions(s) : s \in s6}
        s8 == {IF panicked(s) THEN s ELSE with_cross_calls(s) : s \in s7}
        s9 == {IF panicked(s) THEN s ELSE with_functions(s, s.functions) : s \in s8}
    IN CHOOSE built \in s9 : TRUE

\* materialize_unverified as one call: `os` is the operating system's
\* generator and `keys` the order known_modules.keys() iterates in.  The
\* result is the builder and the generator after the call, and the module
\* built.
materialize_unverified(self, os, keys) ==
    LET address == AccountAddress_random(os)
        addrs == os_random(address.e, self.table_size)
    IN CHOOSE result \in
           {[self   |-> IF built.panic # "none" THEN built
                        ELSE swap_freeze_insert(built),
             os     |-> addrs.e,
             module |-> built.module] :
               built \in {build(self, address.v, addrs.v, keys)}} : TRUE

(***************************************************************************)
(* State.                                                                  *)
(*   gen, module, table_size, known_modules, bytecode_gen                  *)
(*                 the fields of the ModuleBuilder                         *)
(*   functions     the local `functions` of with_random_functions          *)
(*   panic         the message of the failed unwrap or expect, or "none"   *)
(*   forward       the history of the writes made ahead of their target    *)
(*   iters         the field of the ModuleGenerator                        *)
(*   os_rng        the operating system's generator                        *)
(*   driver        who owns the builder: a "ModuleGenerator", or a caller  *)
(*                 of ModuleBuilder::new that calls materialize itself     *)
(*                 ("ModuleBuilder")                                       *)
(*   pc            "idle" between two calls, the method about to run       *)
(*                 within materialize_unverified, "aborted" after a panic  *)
(*   item          what the last next() returned: "Some", "None", or "-"   *)
(*                 before the first pull                                   *)
(*   yielded       the modules materialize has returned, in order          *)
(*   module_count  the iters the ModuleGenerator was created with          *)
(*   pulls         the number of next() calls made                         *)
(*   calls         the number of materialize calls made                    *)
(*   registry_before  known_modules at the start of the last materialize   *)
(*   own_id        the identity (address, name) generated for the module   *)
(*                 of the last materialize call                            *)
(*   twin          a second builder, its operating system's generator and  *)
(*                 the modules it returned; it is used by SpecDet only,    *)
(*                 which runs two builders side by side                    *)
(***************************************************************************)
VARIABLES gen, module, table_size, known_modules, bytecode_gen, functions,
          panic, forward, iters, os_rng, driver, pc, item, yielded, module_count,
          pulls, calls, registry_before, own_id, twin

builder_vars == <<gen, module, table_size, known_modules, bytecode_gen,
                  functions, panic, forward>>

vars == <<gen, module, table_size, known_modules, bytecode_gen, functions,
          panic, forward, iters, os_rng, driver, pc, item, yielded, module_count,
          pulls, calls, registry_before, own_id, twin>>

Self ==
    [gen           |-> gen,
     module        |-> module,
     table_size    |-> table_size,
     known_modules |-> known_modules,
     bytecode_gen  |-> bytecode_gen,
     functions     |-> functions,
     panic         |-> panic,
     forward       |-> forward]

Becomes(self) ==
    /\ gen' = self.gen
    /\ module' = self.module
    /\ table_size' = self.table_size
    /\ known_modules' = self.known_modules
    /\ bytecode_gen' = self.bytecode_gen
    /\ functions' = self.functions
    /\ panic' = self.panic
    /\ forward' = self.forward

\* a method of materialize_unverified ran: on to the method `to`, unless it
\* panicked
Step(self, to) ==
    /\ Becomes(self)
    /\ pc' = IF self.panic # "none" THEN "aborted" ELSE to

\* ModuleGenerator::new(table_size, iters), or ModuleBuilder::new(table_size,
\* bytecode_gen) by a caller that will drive the builder itself
Init ==
    \E seed \in 0..MaxSeed, size \in 0..MaxTableSize, hook \in BytecodeGenerators,
       n \in 0..MaxIters :
        /\ driver \in {"ModuleGenerator", "ModuleBuilder"}
        /\ driver = "ModuleGenerator" => hook = "None"
        /\ driver = "ModuleBuilder" => n = 0
        /\ LET self == ModuleBuilder_new(seed, size, hook)
           IN /\ gen = self.gen
              /\ module = self.module
              /\ table_size = self.table_size
              /\ known_modules = self.known_modules
              /\ bytecode_gen = self.bytecode_gen
              /\ functions = self.functions
              /\ panic = self.panic
              /\ forward = self.forward
        /\ iters = n
        /\ module_count = n
        /\ os_rng \in 0..MaxEntropy
        /\ pc = "idle"
        /\ item = "-"
        /\ yielded = <<>>
        /\ pulls = 0
        /\ calls = 0
        /\ registry_before = <<>>
        /\ own_id = ModuleId(0, "")
        /\ twin = [self |-> ModuleBuilder_new(0, 0, "None"), os_rng |-> 0,
                   yielded |-> <<>>]

\* (mutant) next without `self.iters -= 1`
next_keeps_iters ==
    /\ driver = "ModuleGenerator"
    /\ pc = "idle"
    /\ pulls < module_count + MaxExtraPulls
    /\ pulls' = pulls + 1
    /\ IF iters = 0
       THEN /\ item' = "None"
            /\ UNCHANGED <<pc, calls, registry_before>>
       ELSE /\ pc' = "with_callee_modules"
            /\ calls' = calls + 1
            /\ registry_before' = known_modules
            /\ UNCHANGED item
    /\ UNCHANGED <<builder_vars, iters, os_rng, driver, yielded, module_count,
                   own_id, twin>>

\* ModuleGenerator::next; the call of materialize it makes runs in the
\* steps below and ends in SwapFreezeInsert
next ==
    /\ driver = "ModuleGenerator"
    /\ pc = "idle"
    /\ pulls < module_count + MaxExtraPulls
    /\ pulls' = pulls + 1
    /\ IF iters = 0
       THEN /\ item' = "None"
            /\ UNCHANGED <<iters, pc, calls, registry_before>>
       ELSE /\ iters' = iters - 1
            /\ pc' = "with_callee_modules"
            /\ calls' = calls + 1
            /\ registry_before' = known_modules
            /\ UNCHANGED item
    /\ UNCHANGED <<builder_vars, os_rng, driver, yielded, module_count, own_id,
                   twin>>

\* ModuleBuilder::materialize called by the owner of the builder
materialize ==
    /\ driver = "ModuleBuilder"
    /\ pc = "idle"
    /\ calls < MaxIters
    /\ pc' = "with_callee_modules"
    /\ calls' = calls + 1
    /\ registry_before' = known_modules
    /\ UNCHANGED <<builder_vars, iters, os_rng, driver, item, yielded,
                   module_count, pulls, own_id, twin>>

frame == <<iters, driver, item, yielded, module_count, pulls, calls,
           registry_before, twin>>

WithCalleeModules ==
    /\ pc = "with_callee_modules"
    /\ \E keys \in KeyOrders(DOMAIN known_modules) :
           LET address == AccountAddress_random(os_rng)
           IN /\ Step(with_callee_modules(Self, address.v, keys),
                      "with_account_addresses")
              /\ os_rng' = address.e
              /\ own_id' = ModuleId(address.v, gen_string(gen, SELF_NAME_LENGTH).v)
    /\ UNCHANGED frame

WithAccountAddresses ==
    /\ pc = "with_account_addresses"
    /\ LET addrs == os_random(os_rng, table_size)
       IN /\ Step(with_account_addresses(Self, addrs.v), "with_identifiers")
          /\ os_rng' = addrs.e
    /\ UNCHANGED <<frame, own_id>>

WithIdentifiers ==
    /\ pc = "with_identifiers"
    /\ Step(with_identifiers(Self), "with_user_strings")
    /\ UNCHANGED <<frame, os_rng, own_id>>

WithUserStrings ==
    /\ pc = "with_user_strings"
    /\ Step(with_user_strings(Self), "with_bytearrays")
    /\ UNCHANGED <<frame, os_rng, own_id>>

WithBytearrays ==
    /\ pc = "with_bytearrays"
    /\ Step(with_bytearrays(Self), "with_structs")
    /\ UNCHANGED <<frame, os_rng, own_id>>

WithStructs ==
    /\ pc = "with_structs"
    /\ Step(with_structs(Self), "with_random_functions")
    /\ UNCHANGED <<frame, os_rng, own_id>>

WithRandomFunctions ==
    /\ pc = "with_random_functions"
    /\ Step(random_functions(Self), "with_cross_calls")
    /\ UNCHANGED <<frame, os_rng, own_id>>

WithCrossCalls ==
    /\ pc = "with_cross_calls"
    /\ Step(with_cross_calls(Self), "with_functions")
    /\ UNCHANGED <<frame, os_rng, own_id>>

WithFunctions ==
    /\ pc = "with_functions"
    /\ Step(with_functions(Self, functions), "freeze")
    /\ UNCHANGED <<frame, os_rng, own_id>>

\* the end of materialize_unverified, and the return to the caller: the
\* ModuleGenerator wraps the module in Some
SwapFreezeInsert ==
    /\ pc = "freeze"
    /\ LET self == swap_freeze_insert(Self)
       IN /\ Step(self, "idle")
          /\ IF self.panic # "none"
             THEN UNCHANGED <<yielded, item>>
             ELSE /\ yielded' = Append(yielded, module)
                  /\ item' = IF driver = "ModuleGenerator" THEN "Some" ELSE item
    /\ UNCHANGED <<iters, os_rng, driver, module_count, pulls, calls,
                   registry_before, own_id, twin>>

Next ==
    \/ next
    \/ materialize
    \/ WithCalleeModules
    \/ WithAccountAddresses
    \/ WithIdentifiers
    \/ WithUserStrings
    \/ WithBytearrays
    \/ WithStructs
    \/ WithRandomFunctions
    \/ WithCrossCalls
    \/ WithFunctions
    \/ SwapFreezeInsert

Spec == Init /\ [][Next]_vars

(***************************************************************************)
(* Two builders side by side.  Both are created with the same seed, table  *)
(* size and body-synthesis hook, and each materialize call is made on      *)
(* both.  Each has its own operating system generator and its own          *)
(* HashMap, whose iteration orders are independent.  The first builder is  *)
(* the state above, the second is `twin`.                                  *)
(***************************************************************************)
InitDet ==
    \E seed \in 0..MaxSeed, size \in 0..MaxTableSize, hook \in BytecodeGenerators :
        /\ LET self == ModuleBuilder_new(seed, size, hook)
           IN /\ gen = self.gen
              /\ module = self.module
              /\ table_size = self.table_size
              /\ known_modules = self.known_modules
              /\ bytecode_gen = self.bytecode_gen
              /\ functions = self.functions
              /\ panic = self.panic
              /\ forward = self.forward
              /\ \E os \in 0..MaxEntropy :
                     twin = [self |-> self, os_rng |-> os, yielded |-> <<>>]
        /\ os_rng \in 0..MaxEntropy
        /\ driver = "ModuleBuilder"
        /\ iters = 0
        /\ module_count = 0
        /\ pc = "idle"
        /\ item = "-"
        /\ yielded = <<>>
        /\ pulls = 0
        /\ calls = 0
        /\ registry_before = <<>>
        /\ own_id = ModuleId(0, "")

\* materialize called on both builders
MaterializeBoth ==
    /\ pc = "idle"
    /\ calls < MaxIters
    /\ twin.self.panic = "none"
    /\ \E keys \in KeyOrders(DOMAIN known_modules),
          twin_keys \in KeyOrders(DOMAIN twin.self.known_modules) :
           \E first \in {materialize_unverified(Self, os_rng, keys)},
              second \in {materialize_unverified(twin.self, twin.os_rng, twin_keys)} :
              /\ Step(first.self, "idle")
              /\ os_rng' = first.os
              /\ yielded' = IF first.self.panic # "none" THEN yielded
                            ELSE Append(yielded, first.module)
              /\ twin' = [self    |-> second.self,
                          os_rng  |-> second.os,
                          yielded |-> IF second.self.panic # "none" THEN twin.yielded
                                      ELSE Append(twin.yielded, second.module)]
    /\ calls' = calls + 1
    /\ registry_before' = known_modules
    /\ UNCHANGED <<iters, driver, item, module_count, pulls, own_id>>

NextDet == MaterializeBoth

SpecDet == InitDet /\ [][NextDet]_vars

(***************************************************************************)
(* Properties.                                                             *)
(***************************************************************************)
InCall == pc \notin {"idle", "aborted"}

\* the identity a module handle of m resolves to lies in `ids`
HandleResolvesIn(m, handle, ids) ==
    /\ InTable(handle.address, m.address_pool)
    /\ InTable(handle.name, m.identifiers)
    /\ ModuleId(At(m.address_pool, handle.address),
                At(m.identifiers, handle.name)) \in ids

\* every index of m that designates a position in another table is within
\* that table
ReferencesInRange(m) ==
    /\ \A i \in 1..Len(m.module_handles) :
           /\ m.module_handles[i].address < Len(m.address_pool)
           /\ m.module_handles[i].name < Len(m.identifiers)
    /\ \A i \in 1..Len(m.struct_handles) :
           /\ m.struct_handles[i].module < Len(m.module_handles)
           /\ m.struct_handles[i].name < Len(m.identifiers)
    /\ \A i \in 1..Len(m.struct_defs) :
           /\ m.struct_defs[i].struct_handle < Len(m.struct_handles)
           /\ \A k \in 0..(m.struct_defs[i].field_count - 1) :
                  m.struct_defs[i].fields + k < Len(m.field_defs)
    /\ \A i \in 1..Len(m.field_defs) :
           /\ m.field_defs[i].struct_ < Len(m.struct_handles)
           /\ m.field_defs[i].name < Len(m.identifiers)
           /\ m.field_defs[i].signature < Len(m.type_signatures)
    /\ \A i \in 1..Len(m.function_handles) :
           /\ m.function_handles[i].module < Len(m.module_handles)
           /\ m.function_handles[i].name < Len(m.identifiers)
           /\ m.function_handles[i].signature < Len(m.function_signatures)
    /\ \A i \in 1..Len(m.function_defs) :
           /\ m.function_defs[i].function < Len(m.function_handles)
           /\ m.function_defs[i].code.locals < Len(m.locals_signatures)

\* C1: index validity.  Every module materialize returns, and every module
\* handed to freeze, has all its cross-table indices strictly below the
\* length of the table they designate, whatever the table size and however
\* many modules were built before it.
C1_IndexValidity ==
    /\ \A j \in 1..Len(yielded) : ReferencesInRange(yielded[j])
    /\ \A id \in DOMAIN known_modules : ReferencesInRange(known_modules[id])
    /\ pc = "freeze" => ReferencesInRange(module)

\* a third module of table size 2 has been returned, with handles of two
\* earlier modules, structs, fields and functions
C1_Witness ==
    /\ Len(yielded) = 3
    /\ table_size = 2
    /\ Len(yielded[3].module_handles) = 3
    /\ Len(yielded[3].struct_defs) = 2
    /\ Len(yielded[3].field_defs) >= 3
    /\ Len(yielded[3].function_defs) = 2

\* the function handles of m whose module index is nonzero (external) or
\* zero (local)
ExternalHandles(m) ==
    {i \in 1..Len(m.function_handles) : m.function_handles[i].module # 0}

LocalHandles(m) ==
    {i \in 1..Len(m.function_handles) : m.function_handles[i].module = 0}

\* C2: cross-call ratio.  With table size k >= 1, the second and every later
\* module has exactly k function handles of nonzero module index and k of
\* module index 0 in its finished function-handle table.
C2_CrossCallRatio ==
    \A j \in 2..Len(yielded) :
        table_size >= 1 =>
            /\ Cardinality(ExternalHandles(yielded[j])) = table_size
            /\ Cardinality(LocalHandles(yielded[j])) = table_size

\* the identities of the modules returned before the j-th
EarlierIds(j) == {self_id(yielded[i]) : i \in 1..(j - 1)}

\* m calls only into the modules `ids`: each module handle of index >= 1, and
\* the module handle of each external function handle, resolves to one of
\* them, and m itself is none of them
CallsOnlyInto(m, ids) ==
    /\ self_id(m) \notin ids
    /\ \A h \in 2..Len(m.module_handles) :
           HandleResolvesIn(m, m.module_handles[h], ids)
    /\ \A i \in ExternalHandles(m) :
           /\ InTable(m.function_handles[i].module, m.module_handles)
           /\ HandleResolvesIn(m, At(m.module_handles, m.function_handles[i].module),
                               ids)

\* C3: acyclicity.  A module's module handles of index >= 1, and its
\* function handles of nonzero module index, designate only modules that
\* were registered before its construction began: never itself, never a
\* later module.  Call edges thus lead to earlier modules only, and the call
\* graph has no cycle.
C3_Acyclic ==
    /\ \A j \in 1..Len(yielded) : CallsOnlyInto(yielded[j], EarlierIds(j))
    /\ DOMAIN known_modules = EarlierIds(Len(yielded) + 1)
    /\ (InCall /\ pc # "with_callee_modules") =>
           /\ DOMAIN registry_before = EarlierIds(Len(yielded) + 1)
           /\ CallsOnlyInto(module, DOMAIN registry_before)

\* the third module is under construction and the weaver has given it
\* function handles into both earlier modules
C3_Witness ==
    /\ pc = "with_functions"
    /\ Len(yielded) = 2
    /\ {module.function_handles[i].module : i \in ExternalHandles(module)} = {1, 2}

\* C5: self-handle invariant.  Module handle 0 of every module is (address 0,
\* identifier 0); the identity it resolves to is the one generated for that
\* module by with_callee_modules, from there to the freeze, and it is the
\* key under which the registry holds the module.
C5_SelfHandle ==
    /\ \A j \in 1..Len(yielded) :
           /\ At(yielded[j].module_handles, 0) = [address |-> 0, name |-> 0]
           /\ self_id(yielded[j]) \in DOMAIN known_modules
           /\ known_modules[self_id(yielded[j])] = yielded[j]
    /\ (InCall /\ pc # "with_callee_modules") =>
           /\ At(module.module_handles, 0) = [address |-> 0, name |-> 0]
           /\ self_id(module) = own_id
    /\ (pc = "idle" /\ Len(yielded) >= 1) =>
           self_id(yielded[Len(yielded)]) = own_id

\* a second module of table size 2, built against a non-empty registry, has
\* been returned and registered
C5_Witness ==
    /\ pc = "idle"
    /\ table_size = 2
    /\ Len(yielded) = 2
    /\ Len(yielded[2].module_handles) = 2
    /\ Cardinality(DOMAIN known_modules) = 2

\* C6: a ModuleGenerator created with module_count = n makes one materialize
\* call per pull for its first n pulls, decrementing iters each time, and
\* yields n modules; every later pull returns None without a materialize
\* call; with n = 0 the first pull already returns None and nothing is built.
C6_ExactlyNModules ==
    driver = "ModuleGenerator" =>
        /\ pc # "aborted"
        /\ calls + iters = module_count
        /\ pc = "idle" => Len(yielded) = calls
        /\ (pc = "idle" /\ 1 <= pulls /\ pulls <= module_count) =>
               item = "Some" /\ Len(yielded) = pulls
        /\ (pc = "idle" /\ pulls > module_count) =>
               item = "None" /\ calls = module_count /\ Len(yielded) = module_count
        /\ InCall => pulls = calls /\ Len(yielded) = calls - 1

\* a generator of two modules has been pulled four times: two modules, then
\* None twice
C6_Witness ==
    /\ driver = "ModuleGenerator"
    /\ module_count = 2
    /\ pulls = 4
    /\ item = "None"
    /\ Len(yielded) = 2

\* C7: monotonic growth.  From the seeding of the callee-module handles up
\* to the freeze, no method of materialize_unverified leaves a pool or table
\* of the module under construction shorter than it found it.
C7_MonotonicGrowth ==
    [][(InCall /\ pc # "freeze") =>
           \A t \in Tables : Len(module'[t]) >= Len(module[t])]_vars

\* a second module of table size 2 is ready to be frozen: the weaver appended
\* two function handles and two signatures, and with_functions ran after it
C7_Witness ==
    /\ pc = "freeze"
    /\ table_size = 2
    /\ Len(yielded) = 1
    /\ Len(module.function_handles) = 2
    /\ Len(module.function_signatures) = 4
    /\ Len(module.byte_array_pool) = 2

\* the tables a module of table size 0 leaves empty
EmptyAtSizeZero ==
    {"user_strings", "byte_array_pool", "struct_handles", "struct_defs",
     "field_defs", "function_handles", "function_signatures",
     "locals_signatures", "function_defs"}

\* C8: a table size of zero is no error.  With table_size = 0 no materialize
\* call panics, whether the registry is empty or not, and the j-th module
\* returned has no struct, no function handle, no function definition and no
\* woven cross-call: it holds its own name and address, and one name, one
\* address and one module handle for each of the j - 1 modules known.
C8_ZeroTableSize ==
    table_size = 0 =>
        /\ panic = "none"
        /\ pc # "aborted"
        /\ \A j \in 1..Len(yielded) :
               /\ \A t \in EmptyAtSizeZero : yielded[j][t] = <<>>
               /\ ExternalHandles(yielded[j]) = {}
               /\ Len(yielded[j].module_handles) = j
               /\ Len(yielded[j].identifiers) = j
               /\ Len(yielded[j].address_pool) = j

\* three modules of table size 0 have been returned by a builder that has a
\* body-synthesis hook
C8_Witness ==
    /\ table_size = 0
    /\ bytecode_gen # "None"
    /\ Len(yielded) = 3
    /\ Len(yielded[3].module_handles) = 3

\* C9: a fatal error leaves no partial result.  When a materialize call has
\* panicked, no module was returned for it and the registry is what it was
\* when the call began; the registry is not touched while a module is being
\* built, and it holds exactly the modules that were frozen successfully and
\* returned.
C9_NoPartialResult ==
    /\ pc = "aborted" =>
           /\ panic # "none"
           /\ known_modules = registry_before
           /\ Len(yielded) = calls - 1
    /\ InCall => known_modules = registry_before
    /\ Cardinality(DOMAIN known_modules) = Len(yielded)
    /\ \A id \in DOMAIN known_modules :
           /\ bounds_check(known_modules[id])
           /\ \E j \in 1..Len(yielded) : yielded[j] = known_modules[id]

\* the freeze of a later module failed its bounds check, with modules already
\* registered
C9_Witness ==
    /\ pc = "aborted"
    /\ panic = "should satisfy bounds checker"
    /\ Len(yielded) >= 1
    /\ calls = Len(yielded) + 1

\* C10: the first module of a universe, of table size k, has exactly one
\* module handle, k struct handles, k struct definitions with a field count
\* in [1, MAX_FIELDS), k function handles all of module index 0, k function
\* definitions and at least 1 + k + k identifiers; the weaver added nothing
\* to it (no function handle or signature before with_functions ran, and k
\* signatures in the end).
C10_FirstModule ==
    /\ Len(yielded) >= 1 =>
           LET m == yielded[1] IN
           /\ Len(m.module_handles) = 1
           /\ Len(m.struct_handles) = table_size
           /\ Len(m.struct_defs) = table_size
           /\ \A i \in 1..Len(m.struct_defs) :
                  /\ 1 <= m.struct_defs[i].field_count
                  /\ m.struct_defs[i].field_count < MAX_FIELDS
           /\ Len(m.function_handles) = table_size
           /\ LocalHandles(m) = 1..table_size
           /\ Len(m.function_defs) = table_size
           /\ Len(m.function_signatures) = table_size
           /\ Len(m.identifiers) >= 1 + table_size + table_size
    /\ (pc = "with_functions" /\ Len(yielded) = 0) =>
           /\ module.function_handles = <<>>
           /\ module.function_signatures = <<>>

\* a first module of table size 2 has been returned, one struct of which has
\* one field and the other two
C10_Witness ==
    /\ Len(yielded) >= 1
    /\ table_size = 2
    /\ {yielded[1].struct_defs[i].field_count : i \in 1..2} = {1, 2}

\* C4: determinism.  Two builders created with the same seed, the same table
\* size and the same pure body-synthesis hook have, after the same number of
\* materialize calls, returned the same sequence of modules.
C4_Determinism == yielded = twin.yielded

\* C11: the registry only grows and holds finished modules.  After n
\* completed materialize calls it holds exactly the n modules returned, each
\* under its own identity and equal to the module returned; the j-th module
\* returned was built against j - 1 known modules and has j module handles;
\* and no step removes or changes an entry of the registry.
C11_RegistryGrows ==
    /\ [](/\ Cardinality(DOMAIN known_modules) = Len(yielded)
          /\ DOMAIN known_modules = {self_id(yielded[j]) : j \in 1..Len(yielded)}
          /\ \A j \in 1..Len(yielded) :
                 /\ known_modules[self_id(yielded[j])] = yielded[j]
                 /\ bounds_check(yielded[j])
                 /\ Len(yielded[j].module_handles) = j
          /\ (InCall /\ pc # "with_callee_modules") =>
                 /\ Cardinality(DOMAIN registry_before) = Len(yielded)
                 /\ Len(module.module_handles) = Len(yielded) + 1)
    /\ [][\A id \in DOMAIN known_modules :
              /\ id \in DOMAIN known_modules'
              /\ known_modules'[id] = known_modules[id]]_vars

\* a third module of table size 1 has been registered next to the two
\* modules it was built against
C11_Witness ==
    /\ pc = "idle"
    /\ table_size = 1
    /\ Len(yielded) = 3
    /\ Cardinality(DOMAIN known_modules) = 3
    /\ Len(yielded[3].module_handles) = 3
    /\ Len(yielded[2].module_handles) = 2

\* the writes the builder makes ahead of their target: a struct definition
\* before its struct handle and its fields, a field definition before its
\* struct handle, a local function handle before its signature
WrittenAhead ==
    {<<"struct_defs", "struct_handles">>, <<"struct_defs", "field_defs">>,
     <<"field_defs", "struct_handles">>,
     <<"function_handles", "function_signatures">>}

\* C12 (as stated): write-time index validity.  Whenever an entry holding an
\* index into another table is written to the module under construction, the
\* index is already below the length of that table.
C12_WriteTimeValidity == forward = {}

\* C12 (amended): every index of the module under construction is within the
\* table it designates whenever a method of materialize_unverified has
\* returned; at the moment of the write it is so except for the struct
\* definitions and field definitions of with_structs and the function handles
\* of with_functions, which are written ahead of the struct handles, fields
\* and signatures they designate.
C12_ValidAtMethodEnd ==
    /\ InCall => ReferencesInRange(module)
    /\ forward \subseteq WrittenAhead
    /\ pc \in {"with_callee_modules", "with_account_addresses", "with_identifiers",
               "with_user_strings", "with_bytearrays", "with_structs"} =>
           forward = {}
    /\ pc \in {"with_random_functions", "with_cross_calls", "with_functions"} =>
           <<"function_handles", "function_signatures">> \notin forward
    /\ (pc = "freeze" /\ table_size >= 1) => forward = WrittenAhead

\* a second module of table size 2 is ready to be frozen: its structs, fields
\* and local function handles were written ahead, the handles of the weaver
\* were not, and every index is in range
C12_Witness ==
    /\ pc = "freeze"
    /\ table_size = 2
    /\ Len(yielded) = 1
    /\ forward = WrittenAhead
    /\ ReferencesInRange(module)
    /\ Len(module.function_signatures) = 4

\* C13: all mutation of the module under construction is append-only.  An
\* entry written at a position of a pool or table during a materialize call
\* is at that position after every later method of the call, and in the
\* module the call returns; in particular the function handles appended by
\* the weaver are still there after with_functions.
C13_AppendOnly ==
    [][/\ (InCall /\ pc # "freeze") =>
              \A t \in Tables : \A p \in 1..Len(module[t]) :
                  /\ p <= Len(module'[t])
                  /\ module'[t][p] = module[t][p]
       /\ (pc = "freeze" /\ pc' = "idle") =>
              yielded' = Append(yielded, module)]_vars

\* C14: the weaver's registry lookup never fails.  Whenever with_cross_calls
\* runs, each module handle of index >= 1 of the module under construction
\* resolves, through the address pool and the identifier pool as they stand
\* then, to a key of the registry, and there is one such handle per key; no
\* materialize call ends in the lookup's panic.
C14_LookupNeverFails ==
    /\ panic # "[Module Lookup] Unable to get module from known_modules."
    /\ pc = "with_cross_calls" =>
           /\ Len(module.module_handles) = 1 + Cardinality(DOMAIN known_modules)
           /\ \A h \in 2..Len(module.module_handles) :
                  HandleResolvesIn(module, module.module_handles[h],
                                   DOMAIN known_modules)

\* the weaver has run on a third module of table size 2 and looked up both
\* registered modules
C14_Witness ==
    /\ pc = "with_functions"
    /\ panic = "none"
    /\ table_size = 2
    /\ Cardinality(DOMAIN known_modules) = 2
    /\ {module.function_handles[i].module : i \in 1..Len(module.function_handles)}
           = {1, 2}

\* C15: in every finished module the function-handle, function-signature,
\* locals-signature and function-definition tables have the same length and
\* are index-aligned: function definition i refers to function handle i and
\* locals signature i, and function handle i to function signature i.
C15_Lockstep ==
    \A j \in 1..Len(yielded) :
        LET m == yielded[j] IN
        /\ Len(m.function_handles) = Len(m.function_defs)
        /\ Len(m.function_signatures) = Len(m.function_defs)
        /\ Len(m.locals_signatures) = Len(m.function_defs)
        /\ \A i \in 1..Len(m.function_defs) :
               /\ m.function_defs[i].function = i - 1
               /\ m.function_defs[i].code.locals = i - 1
        /\ \A i \in 1..Len(m.function_handles) :
               m.function_handles[i].signature = i - 1

\* the sum of the field counts of the first n struct definitions of m
RECURSIVE FieldsBefore(_, _)
FieldsBefore(m, n) ==
    IF n = 0 THEN 0 ELSE FieldsBefore(m, n - 1) + m.struct_defs[n].field_count

\* C16: struct fields occupy contiguous, non-overlapping runs.  In every
\* finished module struct definition i has a field count of at least 1,
\* refers to struct handle i, and its run starts at the sum of the field
\* counts of the struct definitions before it; the field definitions of the
\* run all have struct handle i as owner; and the field-definition table is
\* as long as the sum of all field counts.
C16_ContiguousFields ==
    \A j \in 1..Len(yielded) :
        LET m == yielded[j] IN
        /\ Len(m.struct_defs) = table_size
        /\ Len(m.field_defs) = FieldsBefore(m, Len(m.struct_defs))
        /\ \A i \in 1..Len(m.struct_defs) :
               LET d == m.struct_defs[i] IN
               /\ d.field_count >= 1
               /\ d.struct_handle = i - 1
               /\ d.fields = FieldsBefore(m, i - 1)
               /\ \A p \in d.fields..(d.fields + d.field_count - 1) :
                      /\ InTable(p, m.field_defs)
                      /\ At(m.field_defs, p).struct_ = i - 1

\* a module has been returned whose first struct has two fields and whose
\* second struct has two fields as well, from field definition 2 on
C16_Witness ==
    \E j \in 1..Len(yielded) :
        /\ Len(yielded[j].struct_defs) = 2
        /\ yielded[j].struct_defs[1].field_count = 2
        /\ yielded[j].struct_defs[2].fields = 2
        /\ yielded[j].struct_defs[2].field_count = 2
        /\ Len(yielded[j].field_defs) = 4

\* the field definitions of m are named by `base` plus their position in the
\* run of their struct
FieldsNamedFrom(m, base) ==
    \A i \in 1..Len(m.struct_defs) :
        LET d == m.struct_defs[i] IN
        \A k \in 0..(d.field_count - 1) :
            /\ InTable(d.fields + k, m.field_defs)
            /\ At(m.field_defs, d.fields + k).name = base + k

\* C17 (as stated): with `offset` the length of the identifier pool just
\* before with_structs appends the names "struct{i}", every field definition
\* has a name index in [offset, offset + table_size), assigned sequentially
\* from the first reserved name for the fields of each struct.
C17_FieldNamesReserved ==
    [][(pc = "with_structs" /\ pc' = "with_random_functions") =>
           LET offset == Len(module.identifiers) IN
           /\ FieldsNamedFrom(module', offset)
           /\ \A p \in 1..Len(module'.field_defs) :
                  /\ offset <= module'.field_defs[p].name
                  /\ module'.field_defs[p].name < offset + table_size]_vars

\* C17 (amended): the name index of a field definition is the position of
\* the field within its struct: 0 for the first field of every struct, 1 for
\* the second, and so on.  It is an index of the identifier pool, whose first
\* entry is the module's own name, and no offset is added to it.
C17_FieldNamesFromPoolStart ==
    /\ \A j \in 1..Len(yielded) :
           /\ FieldsNamedFrom(yielded[j], 0)
           /\ \A p \in 1..Len(yielded[j].field_defs) :
                  /\ yielded[j].field_defs[p].name < MAX_FIELDS - 1
                  /\ InTable(yielded[j].field_defs[p].name, yielded[j].identifiers)
    /\ pc \in {"with_random_functions", "with_cross_calls", "with_functions",
               "freeze"} =>
           /\ Len(module.struct_defs) = table_size
           /\ FieldsNamedFrom(module, 0)
           /\ \A p \in 1..Len(module.field_defs) :
                  InTable(module.field_defs[p].name, module.identifiers)

\* with_structs has just made two structs, one of them with two fields: the
\* fields are named by identifiers 0 and 1, below the names "struct{i}"
C17_Witness ==
    /\ pc = "with_random_functions"
    /\ table_size = 2
    /\ Len(module.struct_defs) = 2
    /\ {module.field_defs[p].name : p \in 1..Len(module.field_defs)} = {0, 1}
    /\ At(module.identifiers, 0) = own_id.name

\* the function handle h of the module m, whose registry is `registry`, has
\* the name and the signature of a function handle of the registered module
\* its module handle designates
CopiedFrom(m, h, registry) ==
    /\ 1 <= h.module /\ h.module < Len(m.module_handles)
    /\ HandleResolvesIn(m, At(m.module_handles, h.module), DOMAIN registry)
    /\ LET callee_handle == At(m.module_handles, h.module)
           callee == registry[ModuleId(At(m.address_pool, callee_handle.address),
                                       At(m.identifiers, callee_handle.name))]
       IN \E f \in 1..Len(callee.function_handles) :
              /\ At(callee.identifiers, callee.function_handles[f].name)
                     = At(m.identifiers, h.name)
              /\ At(callee.function_signatures, callee.function_handles[f].signature)
                     = At(m.function_signatures, h.signature)

\* C18: each iteration of the weaver appends exactly one identifier, one
\* function signature and one function handle.  After its table_size
\* iterations the three tables are longer by table_size, the entries they
\* had are unchanged, and the q-th new handle has a module index in
\* [1, module-handle count), the q-th new identifier as name and the q-th new
\* signature as signature, which are the name and the signature of a function
\* handle of the registered module that module handle designates.  No other
\* table is touched.
C18_WeaverAppends ==
    [][(pc = "with_cross_calls" /\ pc' = "with_functions"
            /\ Len(module.module_handles) >= 2) =>
           LET ids == Len(module.identifiers)
               sigs == Len(module.function_signatures)
               handles == Len(module.function_handles)
           IN /\ Len(module'.identifiers) = ids + table_size
              /\ Len(module'.function_signatures) = sigs + table_size
              /\ Len(module'.function_handles) = handles + table_size
              /\ SubSeq(module'.identifiers, 1, ids) = module.identifiers
              /\ SubSeq(module'.function_signatures, 1, sigs)
                     = module.function_signatures
              /\ SubSeq(module'.function_handles, 1, handles)
                     = module.function_handles
              /\ \A q \in 0..(table_size - 1) :
                     LET h == At(module'.function_handles, handles + q) IN
                     /\ h.name = ids + q
                     /\ h.signature = sigs + q
                     /\ CopiedFrom(module', h, known_modules)
              /\ \A t \in Tables \ {"identifiers", "function_signatures",
                                    "function_handles"} :
                     module'[t] = module[t]]_vars

\* the weaver has run twice on a second module: it appended two names of
\* functions of the first module, their signatures, and two handles of module
\* index 1 that designate the entries appended
C18_Witness ==
    /\ pc = "with_functions"
    /\ Len(yielded) = 1
    /\ table_size = 2
    /\ Len(module.function_handles) = 2
    /\ Len(module.function_signatures) = 2
    /\ \A i \in 1..2 :
           /\ module.function_handles[i].module = 1
           /\ module.function_handles[i].name = Len(module.identifiers) - 3 + i
           /\ At(module.identifiers, module.function_handles[i].name)
                  \in {"func0", "func1"}

\* C19: every materialize call starts clean.  Between two calls and at the
\* start of each call the builder's module has every pool and table empty
\* except the type-signature pool, which holds the five primitive types;
\* nothing of the module built before is in it; and construction leaves the
\* type-signature pool as it was, up to the module returned.
C19_StartsClean ==
    /\ pc \in {"idle", "with_callee_modules"} =>
           /\ module = default_module_with_types
           /\ \A t \in Tables \ {"type_signatures"} : module[t] = <<>>
    /\ module.type_signatures = <<"Bool", "U64", "String", "ByteArray", "Address">>
    /\ \A j \in 1..Len(yielded) :
           yielded[j].type_signatures
               = <<"Bool", "U64", "String", "ByteArray", "Address">>

\* the third call starts, after two modules of table size 2 with structs and
\* functions were built and returned
C19_Witness ==
    /\ pc = "with_callee_modules"
    /\ calls = 3
    /\ table_size = 2
    /\ Len(yielded) = 2
    /\ Len(yielded[2].function_defs) = 2
    /\ Len(yielded[2].identifiers) >= 6
    /\ module.identifiers = <<>>

\* the step appends exactly n entries to the table `pool` of the module under
\* construction and leaves every other table as it is
AppendsTo(pool, n) ==
    /\ Len(module'[pool]) = Len(module[pool]) + n
    /\ SubSeq(module'[pool], 1, Len(module[pool])) = module[pool]
    /\ \A t \in Tables \ {pool} : module'[t] = module[t]

\* C20: each pool filler appends exactly table_size entries to its own pool
\* and changes no other table; the module built when m modules are
\* registered has 1 + m + table_size addresses, table_size user strings and
\* table_size byte arrays.
C20_PoolFillers ==
    /\ [](\A j \in 1..Len(yielded) :
              /\ Len(yielded[j].address_pool) = 1 + (j - 1) + table_size
              /\ Len(yielded[j].user_strings) = table_size
              /\ Len(yielded[j].byte_array_pool) = table_size)
    /\ [][/\ pc = "with_account_addresses" /\ pc' = "with_identifiers" =>
                 AppendsTo("address_pool", table_size)
          /\ pc = "with_identifiers" /\ pc' = "with_user_strings" =>
                 AppendsTo("identifiers", table_size)
          /\ pc = "with_user_strings" /\ pc' = "with_bytearrays" =>
                 AppendsTo("user_strings", table_size)
          /\ pc = "with_bytearrays" /\ pc' = "with_structs" =>
                 AppendsTo("byte_array_pool", table_size)]_vars

\* a third module of table size 2 has been returned: 5 addresses, 2 user
\* strings, 2 byte arrays
C20_Witness ==
    /\ pc = "idle"
    /\ table_size = 2
    /\ Len(yielded) = 3
    /\ Len(yielded[3].address_pool) = 5
    /\ Len(yielded[3].user_strings) = 2
    /\ Len(yielded[3].byte_array_pool) = 2

============================================================================
